---- MODULE Spec2Model ----
(***************************************************************************)
(* State-machine model of fmjs (src/src/main.js): the Google Drive file    *)
(* manager (session bootstrap, path walking over a flat entry graph) and   *)
(* the HTML5 sandboxed file manager.  Every asynchronous request of the    *)
(* code is one pending position of a caller ("pc"), and every response of  *)
(* gapi / the sandboxed filesystem is one action.                          *)
(***************************************************************************)
EXTENDS Integers, Sequences, FiniteSets, TLC

VARIABLES
  script,                \* script[c]: the operations caller c invokes, in order
  ip,                    \* ip[c]: index of the operation caller c is at
  pc,                    \* pc[c]: the request of the current operation in flight
  loc,                   \* loc[c]: the closure variables of the current operation
  log,                   \* log[c]: the arguments the caller's callbacks received
  ev,                    \* ev[c]: history of requests/responses, <<op index, event>>
  clientOAuthAPILoaded,  \* GDriveFileManager.clientOAuthAPILoaded
  authorized,            \* GDriveFileManager.authorized
  driveAPILoaded,        \* GDriveFileManager.driveAPILoaded
  userInfo,              \* GDriveFileManager.userInfo (NoInfo: null)
  entries,               \* the Drive storage: entries in the order the backend lists them
  nextId,                \* next identifier the Drive backend hands out
  fs,                    \* LocalFileManager.fs (FALSE: null)
  ldirs,                 \* sandboxed filesystem: set of directory paths
  lfiles,                \* sandboxed filesystem: set of file paths
  faults                 \* transport/storage failures the collaborators may still inject

vars == <<script, ip, pc, loc, log, ev, clientOAuthAPILoaded, authorized,
          driveAPILoaded, userInfo, entries, nextId, fs, ldirs, lfiles, faults>>

callerVars == <<script, ip, pc, loc, log, ev>>
sessionVars == <<clientOAuthAPILoaded, authorized, driveAPILoaded, userInfo>>
driveVars == <<entries, nextId>>
localVars == <<fs, ldirs, lfiles>>

----------------------------------------------------------------------------
(* Bounds *)

\* longest script of requestFileSystem calls one caller makes
MaxCalls == 2
\* failures the collaborators may inject in one behaviour
MaxFaults == 1
\* deepest directory path the callers use
MaxDepth == 2
\* longest path, in tokens, given to the path utility
MaxLen == 4
\* longest buffer given to the byte/string conversion
MaxBytes == 3

Clients == {1, 2}

----------------------------------------------------------------------------
(* Values *)

\* the synthetic root folder {'id': 'root'}
RootId == 0
\* the id of a response object that carries none (an error response): undefined
NoId == 0 - 1

Op(o, p, d, f) == [op |-> o, path |-> p, data |-> d, flag |-> f]

RNull == [t |-> "null", id |-> NoId, title |-> <<>>, b |-> FALSE]
RBool(b) == [t |-> "bool", id |-> NoId, title |-> <<>>, b |-> b]
REntry(e) == [t |-> "entry", id |-> e.id, title |-> e.title, b |-> e.folder]
RError == [t |-> "error", id |-> NoId, title |-> <<>>, b |-> FALSE]

\* this.userInfo = null
NoInfo == 0
\* the {name, emailAddress} data the backend may answer an about.get with
UserData == {1, 2}
\* the userDataObj handed to getUserInfo's callback
RUser(info) == [t |-> "user", id |-> info, title |-> <<>>, b |-> FALSE]

NoLoc == [folders |-> <<>>, cur |-> NoId, cont |-> "user", name |-> <<>>, dir |-> <<>>]

----------------------------------------------------------------------------
(* Caller bookkeeping *)

Current(c) == script[c][ip[c]]

CanStart(c, o) ==
  /\ pc[c] = "idle"
  /\ ip[c] <= Len(script[c])
  /\ Current(c).op = o

Emit(c, names) ==
  ev' = [ev EXCEPT ![c] = @ \o [i \in 1..Len(names) |-> <<ip[c], names[i]>>]]

\* the operation has a request in flight (or has stopped): the caller stays at it
Goto(c, p, l) ==
  /\ pc' = [pc EXCEPT ![c] = p]
  /\ loc' = [loc EXCEPT ![c] = l]
  /\ UNCHANGED <<script, ip, log>>

\* the caller-supplied callback is invoked with r; the caller moves on
Callback(c, r) ==
  /\ log' = [log EXCEPT ![c] = Append(@, r)]
  /\ ip' = [ip EXCEPT ![c] = @ + 1]
  /\ pc' = [pc EXCEPT ![c] = "idle"]
  /\ loc' = [loc EXCEPT ![c] = NoLoc]
  /\ UNCHANGED script

HasEv(c, k, e) == \E i \in 1..Len(ev[c]) : ev[c][i] = <<k, e>>

EvCount(c, k, e) == Cardinality({i \in 1..Len(ev[c]) : ev[c][i] = <<k, e>>})

\* event e of operation k of caller c happened, and some event d before it
Before(c, k, d, e) ==
  \A i \in 1..Len(ev[c]) :
    ev[c][i] = <<k, e>> => \E j \in 1..(i - 1) : ev[c][j] = <<k, d>>

\* operation k of caller c has run to its end: called back, stopped or thrown
Finished(c, k) ==
  \/ k < ip[c]
  \/ k = ip[c] /\ pc[c] \in {"ended", "thrown"}

----------------------------------------------------------------------------
(* GDriveFileManager: session *)

\* loadGDriveApi(callback): the request it issues, if any
LoadGDriveApi(auth, loaded) ==
  IF auth
    THEN IF ~loaded
           THEN [pc |-> "driveload", evs |-> <<"driveload.req">>]
           ELSE [pc |-> "ended", evs |-> <<"nocallback">>]
    ELSE [pc |-> "ended", evs |-> <<"console.error", "nocallback">>]

\* requestFS(): authorize when not yet authorized, else load the drive API
RequestFS(auth, loaded) ==
  IF ~auth
    THEN [pc |-> "authorize", evs |-> <<"authorize.req">>]
    ELSE LoadGDriveApi(auth, loaded)

\* requestFileSystem(immediate, callback)
GRequestFileSystem(c) ==
  /\ CanStart(c, "g.requestFileSystem")
  /\ LET called == IF authorized /\ driveAPILoaded THEN "call.ready" ELSE "call.cold"
         nxt == IF clientOAuthAPILoaded
                  THEN RequestFS(authorized, driveAPILoaded)
                  ELSE [pc |-> "libload", evs |-> <<"libload.req">>]
     IN /\ Goto(c, nxt.pc, NoLoc)
        /\ Emit(c, <<called>> \o nxt.evs)
  /\ UNCHANGED <<sessionVars, driveVars, localVars, faults>>

\* gapi.load('auth:client', requestFS): the library is loaded, requestFS runs
GAuthLibLoaded(c) ==
  /\ pc[c] = "libload"
  /\ LET nxt == RequestFS(authorized, driveAPILoaded)
     IN /\ Goto(c, nxt.pc, NoLoc)
        /\ Emit(c, <<"libload.cb">> \o nxt.evs)
  /\ UNCHANGED <<sessionVars, driveVars, localVars, faults>>

\* gapi.auth.authorize callback with a result that carries no error
GAuthorizeGranted(c) ==
  /\ pc[c] = "authorize"
  /\ authorized' = TRUE
  /\ LET nxt == LoadGDriveApi(TRUE, driveAPILoaded)
     IN /\ Goto(c, nxt.pc, NoLoc)
        /\ Emit(c, <<"authorize.ok">> \o nxt.evs)
  /\ UNCHANGED <<clientOAuthAPILoaded, driveAPILoaded, userInfo, driveVars, localVars, faults>>

\* mutant: a refused authorization goes on to load the drive API
GAuthorizeRefused_LoadsAnyway(c) ==
  /\ pc[c] = "authorize"
  /\ Goto(c, "driveload", NoLoc)
  /\ Emit(c, <<"authorize.error", "driveload.req">>)
  /\ UNCHANGED <<sessionVars, driveVars, localVars, faults>>

\* mutant: a refused authorization takes the authorization back
GAuthorizeRefused_Resets(c) ==
  /\ pc[c] = "authorize"
  /\ \E authResult \in {"none", "error"} :
       Emit(c, <<"authorize." \o authResult, "callback.false">>)
  /\ Callback(c, RBool(FALSE))
  /\ authorized' = FALSE
  /\ UNCHANGED <<clientOAuthAPILoaded, driveAPILoaded, userInfo, driveVars, localVars, faults>>

\* gapi.auth.authorize callback with no result, or with a result carrying an error
GAuthorizeRefused(c) ==
  /\ pc[c] = "authorize"
  /\ \E authResult \in {"none", "error"} :
       Emit(c, <<"authorize." \o authResult, "callback.false">>)
  /\ Callback(c, RBool(FALSE))
  /\ UNCHANGED <<sessionVars, driveVars, localVars, faults>>

\* gapi.client.load('drive', 'v2', ...) callback
GDriveApiLoaded(c) ==
  /\ pc[c] = "driveload"
  /\ driveAPILoaded' = TRUE
  /\ Emit(c, <<"driveload.cb", "callback.true">>)
  /\ Callback(c, RBool(TRUE))
  /\ UNCHANGED <<clientOAuthAPILoaded, authorized, userInfo, driveVars, localVars, faults>>

----------------------------------------------------------------------------
(* Session specification: callers that only call requestFileSystem *)

RECURSIVE SeqsUpTo(_, _)
SeqsUpTo(S, n) ==
  IF n = 0 THEN {<<>>}
  ELSE LET shorter == SeqsUpTo(S, n - 1)
       IN shorter \cup {Append(s, x) : s \in shorter, x \in S}

SessionOps == {Op("g.requestFileSystem", <<>>, 0, imm) : imm \in BOOLEAN}

SessionScripts == SeqsUpTo(SessionOps, MaxCalls)

InitCommonCallers ==
  /\ ip = [c \in Clients |-> 1]
  /\ pc = [c \in Clients |-> "idle"]
  /\ loc = [c \in Clients |-> NoLoc]
  /\ log = [c \in Clients |-> <<>>]
  /\ ev = [c \in Clients |-> <<>>]

\* the state after construction: new fmjs.GDriveFileManager(clientId), with
\* this.authorized undefined (the constructor sets the misspelt this.autorized)
InitSession ==
  /\ InitCommonCallers
  /\ script \in [Clients -> SessionScripts]
  /\ clientOAuthAPILoaded = FALSE
  /\ authorized = FALSE
  /\ driveAPILoaded = FALSE
  /\ userInfo = NoInfo
  /\ entries = <<>>
  /\ nextId = 1
  /\ faults = 0
  /\ fs = FALSE
  /\ ldirs = {<<>>}
  /\ lfiles = {}

NextSession ==
  \E c \in Clients :
    \/ GRequestFileSystem(c)
    \/ GAuthLibLoaded(c)
    \/ GAuthorizeGranted(c)
    \/ GAuthorizeRefused(c)
    \/ GDriveApiLoaded(c)

SpecSession == InitSession /\ [][NextSession]_vars

\* every response the collaborator owes eventually arrives
FairSession ==
  /\ SpecSession
  /\ \A c \in Clients :
       /\ WF_vars(GRequestFileSystem(c))
       /\ WF_vars(GAuthLibLoaded(c))
       /\ WF_vars(GAuthorizeGranted(c) \/ GAuthorizeRefused(c))
       /\ WF_vars(GDriveApiLoaded(c))

----------------------------------------------------------------------------
(* GDriveFileManager: getUserInfo *)

\* mutant: the drive namespace is used although the drive API is not loaded
GGetUserInfo_NoReadyCheck(c) ==
  /\ CanStart(c, "g.getUserInfo")
  /\ IF userInfo # NoInfo
       THEN /\ Callback(c, RUser(userInfo))
            /\ Emit(c, <<"call", "callback">>)
       ELSE /\ Goto(c, "about", NoLoc)
            /\ Emit(c, <<"call", "about.req">>)
  /\ UNCHANGED <<sessionVars, driveVars, localVars, faults>>

\* getUserInfo(callback): the cached object, or gapi.client.drive.about.get();
\* gapi.client.drive is undefined until the drive API is loaded, and reading
\* its about property throws
GGetUserInfo(c) ==
  /\ CanStart(c, "g.getUserInfo")
  /\ IF userInfo # NoInfo
       THEN /\ Callback(c, RUser(userInfo))
            /\ Emit(c, <<"call", "callback">>)
       ELSE IF driveAPILoaded
              THEN /\ Goto(c, "about", NoLoc)
                   /\ Emit(c, <<"call", "about.req">>)
              ELSE /\ Goto(c, "thrown", NoLoc)
                   /\ Emit(c, <<"call", "TypeError">>)
  /\ UNCHANGED <<sessionVars, driveVars, localVars, faults>>

\* mutant: the answer is handed over without being kept
GUserInfoGot_NoStore(c) ==
  /\ pc[c] = "about"
  /\ \E info \in UserData :
       /\ Callback(c, RUser(info))
       /\ Emit(c, <<"about.ok", "callback">>)
  /\ UNCHANGED <<sessionVars, driveVars, localVars, faults>>

\* about.get callback with the user's data: self.userInfo = userDataObj; callback(userDataObj)
GUserInfoGot(c) ==
  /\ pc[c] = "about"
  /\ \E info \in UserData :
       /\ userInfo' = info
       /\ Callback(c, RUser(info))
       /\ Emit(c, <<"about.ok", "callback">>)
  /\ UNCHANGED <<clientOAuthAPILoaded, authorized, driveAPILoaded, driveVars, localVars, faults>>

\* about.get callback with an error object: resp.user is undefined,
\* resp.user.emailAddress throws
GUserInfoFailed(c) ==
  /\ pc[c] = "about"
  /\ faults > 0
  /\ faults' = faults - 1
  /\ Goto(c, "thrown", loc[c])
  /\ Emit(c, <<"about.err", "TypeError">>)
  /\ UNCHANGED <<sessionVars, driveVars, localVars>>

\* callers that acquire the session and ask for the user's data
UserOps == {Op("g.requestFileSystem", <<>>, 0, FALSE), Op("g.getUserInfo", <<>>, 0, FALSE)}

UserScripts == SeqsUpTo(UserOps, MaxCalls)

\* a new GDriveFileManager, or one whose session was granted earlier
InitUser ==
  /\ InitCommonCallers
  /\ script \in [Clients -> UserScripts]
  /\ clientOAuthAPILoaded = FALSE
  /\ authorized \in BOOLEAN
  /\ driveAPILoaded = authorized
  /\ userInfo = NoInfo
  /\ entries = <<>>
  /\ nextId = 1
  /\ faults = MaxFaults
  /\ fs = FALSE
  /\ ldirs = {<<>>}
  /\ lfiles = {}

NextUser ==
  \/ NextSession
  \/ \E c \in Clients :
       \/ GGetUserInfo(c)
       \/ GUserInfoGot(c)
       \/ GUserInfoFailed(c)

SpecUser == InitUser /\ [][NextUser]_vars

----------------------------------------------------------------------------
(* Path utility.  A path is a sequence of tokens: "/" or a slash-free piece *)
(* of a name; a segment is the sequence of tokens between two slashes.      *)

\* String.prototype.split('/')
RECURSIVE Split(_)
Split(p) ==
  IF p = <<>> THEN << <<>> >>
  ELSE IF Head(p) = "/" THEN << <<>> >> \o Split(Tail(p))
  ELSE LET r == Split(Tail(p))
       IN << <<Head(p)>> \o Head(r) >> \o Tail(r)

\* mutant: every empty or "." element is thrown out, not only a leading one
Path2Array_DropsEveryEmpty(path) ==
  SelectSeq(Split(path), LAMBDA g : g # <<>> /\ g # <<".">>)

\* fmjs.path2array
Path2Array(path) ==
  LET split == Split(path)
  IN IF split[1] = <<".">> \/ split[1] = <<>> THEN Tail(split) ELSE split

\* filePath.lastIndexOf('/'), counted from 1; 0 when there is no slash (JS: -1)
LastIndexOf(p) ==
  LET at == {i \in 1..Len(p) : p[i] = "/"}
  IN IF at = {} THEN 0 ELSE CHOOSE i \in at : \A j \in at : j <= i

\* filePath.substring(0, filePath.lastIndexOf('/'))
Basedir(p) == SubSeq(p, 1, LastIndexOf(p) - 1)

\* filePath.substring(filePath.lastIndexOf('/') + 1)
Leaf(p) == SubSeq(p, LastIndexOf(p) + 1, Len(p))

----------------------------------------------------------------------------
(* GDriveFileManager: storage operations *)

\* title of the temporary copy readFileByID makes
TempName == <<"tempGDriveFile.tmp">>

RRef(id) == [t |-> "ref", id |-> id, title |-> <<>>, b |-> FALSE]

Entry(id, title, folder, parent, data) ==
  [id |-> id, title |-> title, folder |-> folder, parent |-> parent, data |-> data]

\* gapi.client.drive.children.list({folderId, q: mimeType (!)= folder and title = name}):
\* the matching children, in the order the backend lists them
Children(folderId, name, folder) ==
  SelectSeq(entries, LAMBDA e : e.parent = folderId /\ e.title = name /\ e.folder = folder)

HasId(id) == \E i \in 1..Len(entries) : entries[i].id = id

ById(id) == entries[CHOOSE i \in 1..Len(entries) : entries[i].id = id]

\* GDriveFileManager.writeFile's inner writeFile(baseDirResp): reads
\* baseDirResp.id (a TypeError on null) and issues the multipart upload
WriteFileInner(c, l, r, evs) ==
  IF r.t = "null"
    THEN /\ Goto(c, "thrown", l)
         /\ Emit(c, evs \o <<"TypeError">>)
    ELSE /\ Goto(c, "upload", [l EXCEPT !.cur = r.id])
         /\ Emit(c, evs \o <<"upload.req">>)

\* createPath hands r to its callback: the caller's, or writeFile's inner function
CreatePathDone(c, l, r, evs) ==
  IF l.cont = "user"
    THEN /\ Callback(c, r)
         /\ Emit(c, evs \o <<"callback">>)
    ELSE WriteFileInner(c, l, r, evs)

\* body of GDriveFileManager.createPath(path, callback)
CreatePathBody(c, path, l) ==
  IF driveAPILoaded
    THEN LET folders == Path2Array(path)
         IN IF Len(folders) > 0
              THEN /\ Goto(c, "cp.list", [l EXCEPT !.folders = folders, !.cur = RootId])
                   /\ Emit(c, <<"call", "list.req">>)
              ELSE CreatePathDone(c, l, RNull, <<"call">>)
    ELSE /\ Goto(c, "ended", l)
         /\ Emit(c, <<"call", "console.error", "nocallback">>)

\* createPath(path, callback)
GCreatePath(c) ==
  /\ CanStart(c, "g.createPath")
  /\ CreatePathBody(c, Current(c).path, NoLoc)
  /\ UNCHANGED <<sessionVars, driveVars, localVars, faults>>

\* writeFile(filePath, fileData, callback): this.createPath(basedir, writeFile)
GWriteFile(c) ==
  /\ CanStart(c, "g.writeFile")
  /\ CreatePathBody(c, Basedir(Current(c).path),
                    [NoLoc EXCEPT !.cont = "write", !.name = Leaf(Current(c).path)])
  /\ UNCHANGED <<sessionVars, driveVars, localVars, faults>>

\* createFolder: after folders[0] is settled as resp, go on or hand resp over
CreateFolderNext(c, resp, evs) ==
  LET rest == Tail(loc[c].folders)
  IN IF Len(rest) > 0
       THEN /\ Goto(c, "cp.list", [loc[c] EXCEPT !.folders = rest, !.cur = resp.id])
            /\ Emit(c, evs \o <<"list.req">>)
       ELSE CreatePathDone(c, loc[c], resp, evs)

\* mutant: the folder is inserted without looking at the listing
GCreateFolderListed_AlwaysInsert(c) ==
  /\ pc[c] = "cp.list"
  /\ loc[c].cur # NoId
  /\ Goto(c, "cp.insert", loc[c])
  /\ Emit(c, <<"list.cb", "insert.req">>)
  /\ UNCHANGED <<sessionVars, driveVars, localVars, faults>>

\* createFolder: findRequest.execute callback with a listing
GCreateFolderListed(c) ==
  /\ pc[c] = "cp.list"
  /\ loc[c].cur # NoId
  /\ LET items == Children(loc[c].cur, loc[c].folders[1], TRUE)
     IN IF Len(items) = 0
          THEN /\ Goto(c, "cp.insert", loc[c])
               /\ Emit(c, <<"list.cb", "insert.req">>)
          ELSE CreateFolderNext(c, RRef(items[1].id), <<"list.cb">>)
  /\ UNCHANGED <<sessionVars, driveVars, localVars, faults>>

\* a listing that fails (or lists under an undefined folderId) answers with an
\* error object: findResp.items is undefined, findResp.items.length throws
ListFailed(c, at) ==
  /\ pc[c] = at
  /\ IF loc[c].cur = NoId THEN UNCHANGED faults
     ELSE faults > 0 /\ faults' = faults - 1
  /\ Goto(c, "thrown", loc[c])
  /\ Emit(c, <<"list.err", "TypeError">>)
  /\ UNCHANGED <<sessionVars, driveVars, localVars>>

GCreateFolderListFailed(c) == ListFailed(c, "cp.list")

\* mutant: the insert is skipped when a folder of that name is there by now
GCreateFolderInserted_Unique(c) ==
  /\ pc[c] = "cp.insert"
  /\ LET items == Children(loc[c].cur, loc[c].folders[1], TRUE)
         e == Entry(nextId, loc[c].folders[1], TRUE, loc[c].cur, 0)
     IN IF Len(items) > 0
          THEN /\ UNCHANGED driveVars
               /\ CreateFolderNext(c, RRef(items[1].id), <<"insert.ok">>)
          ELSE /\ entries' = Append(entries, e)
               /\ nextId' = nextId + 1
               /\ CreateFolderNext(c, REntry(e), <<"insert.ok">>)
  /\ UNCHANGED <<sessionVars, localVars, faults>>

\* createFolder: files.insert callback with the new folder's resource
GCreateFolderInserted(c) ==
  /\ pc[c] = "cp.insert"
  /\ LET e == Entry(nextId, loc[c].folders[1], TRUE, loc[c].cur, 0)
     IN /\ entries' = Append(entries, e)
        /\ nextId' = nextId + 1
        /\ CreateFolderNext(c, REntry(e), <<"insert.ok">>)
  /\ UNCHANGED <<sessionVars, localVars, faults>>

\* createFolder: files.insert callback with an error object (unchecked by the code)
GCreateFolderInsertFailed(c) ==
  /\ pc[c] = "cp.insert"
  /\ faults > 0
  /\ faults' = faults - 1
  /\ CreateFolderNext(c, RError, <<"insert.err">>)
  /\ UNCHANGED <<sessionVars, driveVars, localVars>>

\* mutant: the metadata's parents field is lost, the file lands in the root
GUploaded_UnderRoot(c) ==
  /\ pc[c] = "upload"
  /\ loc[c].cur # NoId
  /\ LET e == Entry(nextId, loc[c].name, FALSE, RootId, Current(c).data)
     IN /\ entries' = Append(entries, e)
        /\ nextId' = nextId + 1
        /\ Callback(c, REntry(e))
        /\ Emit(c, <<"upload.ok", "callback">>)
  /\ UNCHANGED <<sessionVars, localVars, faults>>

\* mutant: an upload replaces the first file of that name under the parent
GUploaded_Overwrites(c) ==
  /\ pc[c] = "upload"
  /\ loc[c].cur # NoId
  /\ LET same == Children(loc[c].cur, loc[c].name, FALSE)
         e == IF same = <<>>
                THEN Entry(nextId, loc[c].name, FALSE, loc[c].cur, Current(c).data)
                ELSE [same[1] EXCEPT !.data = Current(c).data]
     IN /\ entries' = IF same = <<>> THEN Append(entries, e)
                      ELSE [i \in 1..Len(entries) |->
                              IF entries[i].id = e.id THEN e ELSE entries[i]]
        /\ nextId' = IF same = <<>> THEN nextId + 1 ELSE nextId
        /\ Callback(c, REntry(e))
        /\ Emit(c, <<"upload.ok", "callback">>)
  /\ UNCHANGED <<sessionVars, localVars, faults>>

\* writeFile: request.execute(callback) answers with the new file's resource
GUploaded(c) ==
  /\ pc[c] = "upload"
  /\ loc[c].cur # NoId
  /\ LET e == Entry(nextId, loc[c].name, FALSE, loc[c].cur, Current(c).data)
     IN /\ entries' = Append(entries, e)
        /\ nextId' = nextId + 1
        /\ Callback(c, REntry(e))
        /\ Emit(c, <<"upload.ok", "callback">>)
  /\ UNCHANGED <<sessionVars, localVars, faults>>

\* writeFile: request.execute(callback) answers with an error object
GUploadFailed(c) ==
  /\ pc[c] = "upload"
  /\ IF loc[c].cur = NoId THEN UNCHANGED faults
     ELSE faults > 0 /\ faults' = faults - 1
  /\ Callback(c, RError)
  /\ Emit(c, <<"upload.err", "callback">>)
  /\ UNCHANGED <<sessionVars, driveVars, localVars>>

\* mutant: the path is walked whether or not the drive API is loaded
GIsFile_NoReadyCheck(c) ==
  /\ CanStart(c, "g.isFile")
  /\ LET found == Path2Array(Current(c).path)
     IN IF Len(found) > 0
          THEN /\ Goto(c, "fe.list", [NoLoc EXCEPT !.folders = found, !.cur = RootId])
               /\ Emit(c, <<"call", "list.req">>)
          ELSE /\ Callback(c, RNull)
               /\ Emit(c, <<"call", "callback">>)
  /\ UNCHANGED <<sessionVars, driveVars, localVars, faults>>

\* isFile(filePath, callback)
GIsFile(c) ==
  /\ CanStart(c, "g.isFile")
  /\ IF driveAPILoaded
       THEN LET found == Path2Array(Current(c).path)
            IN IF Len(found) > 0
                 THEN /\ Goto(c, "fe.list", [NoLoc EXCEPT !.folders = found, !.cur = RootId])
                      /\ Emit(c, <<"call", "list.req">>)
                 ELSE /\ Callback(c, RNull)
                      /\ Emit(c, <<"call", "callback">>)
       ELSE /\ Goto(c, "ended", NoLoc)
            /\ Emit(c, <<"call", "console.error", "nocallback">>)
  /\ UNCHANGED <<sessionVars, driveVars, localVars, faults>>

\* mutant: the empty listing is not checked, findResp.items[0].id throws
GFindEntryListed_NoEmptyCheck(c) ==
  /\ pc[c] = "fe.list"
  /\ loc[c].cur # NoId
  /\ LET items == Children(loc[c].cur, loc[c].folders[1], Len(loc[c].folders) # 1)
         rest == Tail(loc[c].folders)
     IN IF Len(items) = 0
          THEN /\ Goto(c, "thrown", loc[c])
               /\ Emit(c, <<"list.cb", "TypeError">>)
          ELSE IF Len(rest) > 0
                 THEN /\ Goto(c, "fe.list", [loc[c] EXCEPT !.folders = rest, !.cur = items[1].id])
                      /\ Emit(c, <<"list.cb", "list.req">>)
                 ELSE /\ Goto(c, "fe.get", [loc[c] EXCEPT !.folders = rest, !.cur = items[1].id])
                      /\ Emit(c, <<"list.cb", "get.req">>)
  /\ UNCHANGED <<sessionVars, driveVars, localVars, faults>>

\* mutant: the entry taken from a listing is its last item
GFindEntryListed_TakesLast(c) ==
  /\ pc[c] = "fe.list"
  /\ loc[c].cur # NoId
  /\ LET items == Children(loc[c].cur, loc[c].folders[1], Len(loc[c].folders) # 1)
         rest == Tail(loc[c].folders)
     IN IF Len(items) = 0
          THEN /\ Callback(c, RNull)
               /\ Emit(c, <<"list.cb", "console.error", "callback">>)
          ELSE IF Len(rest) > 0
                 THEN /\ Goto(c, "fe.list",
                              [loc[c] EXCEPT !.folders = rest, !.cur = items[Len(items)].id])
                      /\ Emit(c, <<"list.cb", "list.req">>)
                 ELSE /\ Goto(c, "fe.get",
                              [loc[c] EXCEPT !.folders = rest, !.cur = items[Len(items)].id])
                      /\ Emit(c, <<"list.cb", "get.req">>)
  /\ UNCHANGED <<sessionVars, driveVars, localVars, faults>>

\* findEntry: findRequest.execute callback with a listing
GFindEntryListed(c) ==
  /\ pc[c] = "fe.list"
  /\ loc[c].cur # NoId
  /\ LET items == Children(loc[c].cur, loc[c].folders[1], Len(loc[c].folders) # 1)
         rest == Tail(loc[c].folders)
     IN IF Len(items) = 0
          THEN /\ Callback(c, RNull)
               /\ Emit(c, <<"list.cb", "console.error", "callback">>)
          ELSE IF Len(rest) > 0
                 THEN /\ Goto(c, "fe.list", [loc[c] EXCEPT !.folders = rest, !.cur = items[1].id])
                      /\ Emit(c, <<"list.cb", "list.req">>)
                 ELSE /\ Goto(c, "fe.get", [loc[c] EXCEPT !.folders = rest, !.cur = items[1].id])
                      /\ Emit(c, <<"list.cb", "get.req">>)
  /\ UNCHANGED <<sessionVars, driveVars, localVars, faults>>

GFindEntryListFailed(c) == ListFailed(c, "fe.list")

\* findEntry: files.get callback with the file resource
GFileGot(c) ==
  /\ pc[c] = "fe.get"
  /\ HasId(loc[c].cur)
  /\ Callback(c, REntry(ById(loc[c].cur)))
  /\ Emit(c, <<"get.ok", "callback">>)
  /\ UNCHANGED <<sessionVars, driveVars, localVars, faults>>

\* findEntry: files.get callback with an error object
GFileGetFailed(c) ==
  /\ pc[c] = "fe.get"
  /\ faults > 0
  /\ faults' = faults - 1
  /\ Callback(c, RError)
  /\ Emit(c, <<"get.err", "callback">>)
  /\ UNCHANGED <<sessionVars, driveVars, localVars>>

\* readFile(filePath, callback): this.isfile is not a function (only isFile is
\* defined on the prototype chain), so the call throws before any request
ReadFileBody(c, l, evs) ==
  /\ Goto(c, "thrown", l)
  /\ Emit(c, evs \o <<"readFile", "TypeError">>)

GReadFile(c) ==
  /\ CanStart(c, "g.readFile")
  /\ ReadFileBody(c, NoLoc, <<"call">>)
  /\ UNCHANGED <<sessionVars, driveVars, localVars, faults>>

\* readFileByID(fileID, callback)
GReadFileByID(c) ==
  /\ CanStart(c, "g.readFileByID")
  /\ IF driveAPILoaded
       THEN /\ Goto(c, "copy", [NoLoc EXCEPT !.cur = Current(c).data])
            /\ Emit(c, <<"call", "copy.req">>)
       ELSE /\ Goto(c, "ended", NoLoc)
            /\ Emit(c, <<"call", "console.error", "nocallback">>)
  /\ UNCHANGED <<sessionVars, driveVars, localVars, faults>>

\* copyRequest.execute callback with the duplicate's resource (the backend puts
\* the duplicate beside the original); then self.readFile('tempGDriveFile.tmp', ...)
GCopied(c) ==
  /\ pc[c] = "copy"
  /\ HasId(loc[c].cur)
  /\ LET orig == ById(loc[c].cur)
         e == Entry(nextId, TempName, FALSE, orig.parent, orig.data)
     IN /\ entries' = Append(entries, e)
        /\ nextId' = nextId + 1
        /\ ReadFileBody(c, [loc[c] EXCEPT !.cur = e.id], <<"copy.ok">>)
  /\ UNCHANGED <<sessionVars, localVars, faults>>

\* copyRequest.execute callback with an error object; readFile is called all the same
GCopyFailed(c) ==
  /\ pc[c] = "copy"
  /\ IF HasId(loc[c].cur) THEN faults > 0 /\ faults' = faults - 1
     ELSE UNCHANGED faults
  /\ ReadFileBody(c, [loc[c] EXCEPT !.cur = NoId], <<"copy.err">>)
  /\ UNCHANGED <<sessionVars, driveVars, localVars>>

----------------------------------------------------------------------------
(* LocalFileManager.  The sandboxed filesystem is a set of directories and  *)
(* files, each named by its normalised path from the root.                  *)

RDir(p) == [t |-> "dir", id |-> NoId, title |-> p, b |-> TRUE]
RFile(p) == [t |-> "file", id |-> NoId, title |-> p, b |-> FALSE]
RData(d) == [t |-> "data", id |-> d, title |-> <<>>, b |-> FALSE]

\* the entry a directory handle and a name lead to
Child(dir, seg) == IF dir = <<>> THEN seg ELSE dir \o <<"/">> \o seg

RECURSIVE Join(_)
Join(segs) ==
  IF segs = <<>> THEN <<>> ELSE Child(Join(SubSeq(segs, 1, Len(segs) - 1)), segs[Len(segs)])

\* how the filesystem resolves a path string from the root: empty and "."
\* segments are skipped
Norm(path) == Join(SelectSeq(Split(path), LAMBDA g : g # <<>> /\ g # <<".">>))

FileAt(p) == \E f \in lfiles : f.path = p

DataAt(p) == (CHOOSE f \in lfiles : f.path = p).data

PutFile(p, d) == {f \in lfiles : f.path # p} \cup {[path |-> p, data |-> d]}

\* a storage step fails: by itself (natural) or by an injected failure
Fails(natural) ==
  IF natural THEN UNCHANGED faults ELSE faults > 0 /\ faults' = faults - 1

\* LocalFileManager.writeFile's inner writeFile(): self.fs.root.getFile(filePath, {create: true}, ...)
LWriteFileInner(c, l, evs) ==
  /\ Goto(c, "l.getfile.w", l)
  /\ Emit(c, evs \o <<"getfile.req">>)

\* createPath's callback gets r: the caller's callback, or writeFile's inner
\* writeFile, which ignores its argument
LCreatePathDone(c, l, r, evs) ==
  IF l.cont = "user"
    THEN /\ Callback(c, r)
         /\ Emit(c, evs \o <<"callback">>)
    ELSE LWriteFileInner(c, l, evs)

\* LocalFileManager.createPath's inner createPath(): createFolder(self.fs, path2array(path))
LCreatePathInner(c, path, l, evs) ==
  /\ Goto(c, "l.mkdir", [l EXCEPT !.folders = Path2Array(path), !.dir = <<>>])
  /\ Emit(c, evs \o <<"mkdir.req">>)

\* what an operation does once this.fs is set
LBody(c, evs) ==
  IF Current(c).op = "l.createPath"
    THEN LCreatePathInner(c, Current(c).path, NoLoc, evs)
  ELSE IF Current(c).op = "l.writeFile"
    THEN /\ Goto(c, "l.checkdir", [NoLoc EXCEPT !.cont = "write"])
         /\ Emit(c, evs \o <<"checkdir.req">>)
  ELSE /\ Goto(c, "l.getfile.r", NoLoc)
       /\ Emit(c, evs \o <<"lookup.req">>)

\* mutant: the body runs at once, whether or not this.fs is set
LEnter_NoSessionCheck(c) ==
  /\ LBody(c, <<"call">>)
  /\ UNCHANGED <<sessionVars, driveVars, localVars, faults>>

\* if (this.fs) { body() } else { this.requestFileSystem(body) }, in a browser
\* that has window.requestFileSystem
LEnter(c) ==
  /\ IF fs
       THEN LBody(c, <<"call">>)
       ELSE /\ Goto(c, "l.reqfs", NoLoc)
            /\ Emit(c, <<"call", "reqfs.req">>)
  /\ UNCHANGED <<sessionVars, driveVars, localVars, faults>>

LCreatePath(c) == CanStart(c, "l.createPath") /\ LEnter(c)

LIsFile(c) == CanStart(c, "l.isFile") /\ LEnter(c)

LReadFile(c) == CanStart(c, "l.readFile") /\ LEnter(c)

LWriteFile(c) == CanStart(c, "l.writeFile") /\ LEnter(c)

\* requestFileSystem success callback: self.fs = fs; callback()
LFsGranted(c) ==
  /\ pc[c] = "l.reqfs"
  /\ fs' = TRUE
  /\ LBody(c, <<"reqfs.cb">>)
  /\ UNCHANGED <<sessionVars, driveVars, ldirs, lfiles, faults>>

\* requestFileSystem error callback: throw new Error('Could not grant filesystem...')
LFsDenied(c) ==
  /\ pc[c] = "l.reqfs"
  /\ Fails(FALSE)
  /\ Goto(c, "thrown", loc[c])
  /\ Emit(c, <<"reqfs.err", "Error">>)
  /\ UNCHANGED <<sessionVars, driveVars, localVars>>

\* createFolder: getDirectory(folders[0], {create: true, exclusive: false}) succeeded
LDirCreated(c) ==
  /\ pc[c] = "l.mkdir"
  /\ LET d == Child(loc[c].dir, loc[c].folders[1])
         rest == Tail(loc[c].folders)
     IN /\ ~FileAt(d)
        /\ ldirs' = ldirs \cup {d}
        /\ IF Len(rest) > 0
             THEN /\ Goto(c, "l.mkdir", [loc[c] EXCEPT !.folders = rest, !.dir = d])
                  /\ Emit(c, <<"mkdir.ok", "mkdir.req">>)
             ELSE LCreatePathDone(c, loc[c], RDir(d), <<"mkdir.ok">>)
  /\ UNCHANGED <<sessionVars, driveVars, fs, lfiles, faults>>

\* mutant: after a failed level the remaining levels are still requested
LDirCreateFailed_GoesOn(c) ==
  /\ pc[c] = "l.mkdir"
  /\ Fails(FileAt(Child(loc[c].dir, loc[c].folders[1])))
  /\ LET rest == Tail(loc[c].folders)
     IN IF Len(rest) > 0
          THEN /\ Goto(c, "l.mkdir", [loc[c] EXCEPT !.folders = rest])
               /\ Emit(c, <<"mkdir.err", "mkdir.req">>)
          ELSE LCreatePathDone(c, loc[c], RNull, <<"mkdir.err">>)
  /\ UNCHANGED <<sessionVars, driveVars, localVars>>

\* createFolder: getDirectory failed; errorHandler: if (callback) callback(null)
LDirCreateFailed(c) ==
  /\ pc[c] = "l.mkdir"
  /\ Fails(FileAt(Child(loc[c].dir, loc[c].folders[1])))
  /\ LCreatePathDone(c, loc[c], RNull, <<"mkdir.err">>)
  /\ UNCHANGED <<sessionVars, driveVars, localVars>>

\* checkPathAndWriteFile: getDirectory(basedir, {create: false}) found it: writeFile()
LDirFound(c) ==
  /\ pc[c] = "l.checkdir"
  /\ Norm(Basedir(Current(c).path)) \in ldirs
  /\ LWriteFileInner(c, loc[c], <<"checkdir.ok">>)
  /\ UNCHANGED <<sessionVars, driveVars, localVars, faults>>

\* checkPathAndWriteFile: NOT_FOUND_ERR: self.createPath(basedir, writeFile)
LDirNotFound(c) ==
  /\ pc[c] = "l.checkdir"
  /\ Norm(Basedir(Current(c).path)) \notin ldirs
  /\ ~FileAt(Norm(Basedir(Current(c).path)))
  /\ LCreatePathInner(c, Basedir(Current(c).path), loc[c], <<"checkdir.notfound">>)
  /\ UNCHANGED <<sessionVars, driveVars, localVars, faults>>

\* checkPathAndWriteFile: any other error: errorHandler(err)
LDirCheckFailed(c) ==
  /\ pc[c] = "l.checkdir"
  /\ Fails(FileAt(Norm(Basedir(Current(c).path))))
  /\ Callback(c, RNull)
  /\ Emit(c, <<"checkdir.err", "callback">>)
  /\ UNCHANGED <<sessionVars, driveVars, localVars>>

\* writeFile: getFile(filePath, {create: true}) succeeded: fileEntry.createWriter
LFileOpened(c) ==
  /\ pc[c] = "l.getfile.w"
  /\ LET p == Norm(Current(c).path)
     IN /\ Norm(Basedir(Current(c).path)) \in ldirs
        /\ p \notin ldirs
        /\ lfiles' = IF FileAt(p) THEN lfiles ELSE PutFile(p, 0)
  /\ Goto(c, "l.writer", loc[c])
  /\ Emit(c, <<"getfile.ok", "writer.req">>)
  /\ UNCHANGED <<sessionVars, driveVars, fs, ldirs, faults>>

\* writeFile: getFile(filePath, {create: true}) failed: errorHandler
LFileOpenFailed(c) ==
  /\ pc[c] = "l.getfile.w"
  /\ Fails(Norm(Basedir(Current(c).path)) \notin ldirs \/ Norm(Current(c).path) \in ldirs)
  /\ Callback(c, RNull)
  /\ Emit(c, <<"getfile.err", "callback">>)
  /\ UNCHANGED <<sessionVars, driveVars, localVars>>

\* writeFile: createWriter succeeded: fileWriter.write(dataBlob)
LWriterCreated(c) ==
  /\ pc[c] = "l.writer"
  /\ Goto(c, "l.write", loc[c])
  /\ Emit(c, <<"writer.ok", "write.req">>)
  /\ UNCHANGED <<sessionVars, driveVars, localVars, faults>>

\* writeFile: createWriter failed: errorHandler
LWriterFailed(c) ==
  /\ pc[c] = "l.writer"
  /\ Fails(FALSE)
  /\ Callback(c, RNull)
  /\ Emit(c, <<"writer.err", "callback">>)
  /\ UNCHANGED <<sessionVars, driveVars, localVars>>

\* mutant: onwrite calls back at once and asks for the File object as well
LWritten_AlsoCallsBack(c) ==
  /\ pc[c] = "l.write"
  /\ lfiles' = PutFile(Norm(Current(c).path), Current(c).data)
  /\ Goto(c, "l.fileobj", loc[c])
  /\ Emit(c, <<"write.ok", "callback", "fileobj.req">>)
  /\ UNCHANGED <<sessionVars, driveVars, fs, ldirs, faults>>

\* writeFile: fileWriter.onwrite: fileEntry.file(...)
LWritten(c) ==
  /\ pc[c] = "l.write"
  /\ lfiles' = PutFile(Norm(Current(c).path), Current(c).data)
  /\ Goto(c, "l.fileobj", loc[c])
  /\ Emit(c, <<"write.ok", "fileobj.req">>)
  /\ UNCHANGED <<sessionVars, driveVars, fs, ldirs, faults>>

\* writeFile: fileWriter.onerror: callback(null)
LWriteError(c) ==
  /\ pc[c] = "l.write"
  /\ Fails(FALSE)
  /\ Callback(c, RNull)
  /\ Emit(c, <<"write.err", "callback">>)
  /\ UNCHANGED <<sessionVars, driveVars, localVars>>

\* isFile / readFile: getFile(filePath, {create: false}) found it: fileEntry.file(...)
LFileFound(c) ==
  /\ pc[c] = "l.getfile.r"
  /\ FileAt(Norm(Current(c).path))
  /\ Goto(c, "l.fileobj", loc[c])
  /\ Emit(c, <<"lookup.ok", "fileobj.req">>)
  /\ UNCHANGED <<sessionVars, driveVars, localVars, faults>>

\* isFile / readFile: getFile failed: errorHandler: callback(null)
LFileNotFound(c) ==
  /\ pc[c] = "l.getfile.r"
  /\ Fails(~FileAt(Norm(Current(c).path)))
  /\ Callback(c, RNull)
  /\ Emit(c, <<"lookup.err", "callback">>)
  /\ UNCHANGED <<sessionVars, driveVars, localVars>>

\* fileEntry.file success: isFile and writeFile call back with the File object,
\* readFile starts reader.readAsArrayBuffer(fileObj)
LFileObj(c) ==
  /\ pc[c] = "l.fileobj"
  /\ IF Current(c).op = "l.readFile"
       THEN /\ Goto(c, "l.read", loc[c])
            /\ Emit(c, <<"fileobj.ok", "read.req">>)
       ELSE /\ Callback(c, RFile(Norm(Current(c).path)))
            /\ Emit(c, <<"fileobj.ok", "callback">>)
  /\ UNCHANGED <<sessionVars, driveVars, localVars, faults>>

\* fileEntry.file failure: errorHandler: callback(null)
LFileObjFailed(c) ==
  /\ pc[c] = "l.fileobj"
  /\ Fails(FALSE)
  /\ Callback(c, RNull)
  /\ Emit(c, <<"fileobj.err", "callback">>)
  /\ UNCHANGED <<sessionVars, driveVars, localVars>>

\* readFile: reader.onload: callback(this.result)
LReadLoaded(c) ==
  /\ pc[c] = "l.read"
  /\ FileAt(Norm(Current(c).path))
  /\ Callback(c, RData(DataAt(Norm(Current(c).path))))
  /\ Emit(c, <<"read.ok", "callback">>)
  /\ UNCHANGED <<sessionVars, driveVars, localVars, faults>>

\* readFile: the read fails; the reader has no onerror handler
LReadError(c) ==
  /\ pc[c] = "l.read"
  /\ Fails(FALSE)
  /\ Goto(c, "ended", loc[c])
  /\ Emit(c, <<"read.err", "nocallback">>)
  /\ UNCHANGED <<sessionVars, driveVars, localVars>>

----------------------------------------------------------------------------
(* Drive specification: the session is ready (after a granted                *)
(* requestFileSystem), callers run storage operations                        *)

Names == <<"a", "b">>

\* "/a", "/a/b", "/a/b/a", ...
RECURSIVE DirPath(_)
DirPath(n) ==
  IF n = 0 THEN <<>>
  ELSE DirPath(n - 1) \o <<"/", Names[((n - 1) % 2) + 1]>>

DirPaths == {DirPath(n) : n \in 1..MaxDepth}

\* "/a/f", "/a/b/f", ..., the root-level "/f" and "f", and the relative "a/f"
FilePaths ==
  {d \o <<"/", "f">> : d \in DirPaths \cup {<<>>}} \cup {<<"f">>, <<"a", "/", "f">>}

\* storage left by earlier use: folder a, a/f, a second folder a, a root-level f
\* and a root-level file that is called a
UsedStore ==
  << Entry(1, <<"a">>, TRUE, RootId, 0),
     Entry(2, <<"f">>, FALSE, 1, 5),
     Entry(3, <<"a">>, TRUE, RootId, 0),
     Entry(4, <<"f">>, FALSE, RootId, 6),
     Entry(5, <<"a">>, FALSE, RootId, 7) >>

Stores == {<<>>, UsedStore}

FileIds == {2, 4}

CreatePathOp(p) == Op("g.createPath", p, 0, FALSE)
WriteFileOp(p, d) == Op("g.writeFile", p, d, FALSE)
IsFileOp(p) == Op("g.isFile", p, 0, FALSE)
ReadFileOp(p) == Op("g.readFile", p, 0, FALSE)
ReadFileByIDOp(id) == Op("g.readFileByID", <<>>, id, FALSE)

DriveSingles ==
  {<<CreatePathOp(d)>> : d \in DirPaths}
    \cup {<<WriteFileOp(p, 2)>> : p \in FilePaths}
    \cup {<<IsFileOp(p)>> : p \in FilePaths}
    \cup {<<ReadFileByIDOp(id)>> : id \in FileIds}

DriveScripts ==
  {<<>>}
    \cup {<<CreatePathOp(d)>> : d \in DirPaths}
    \cup {<<CreatePathOp(d), CreatePathOp(d)>> : d \in DirPaths}
    \cup {<<CreatePathOp(Basedir(p)), WriteFileOp(p, 1), IsFileOp(p)>> : p \in FilePaths}
    \cup {<<WriteFileOp(p, 1)>> : p \in FilePaths}
    \cup {<<WriteFileOp(p, 1), WriteFileOp(p, 1), IsFileOp(p)>> : p \in FilePaths}
    \cup {<<IsFileOp(p)>> : p \in FilePaths}
    \cup {<<ReadFileOp(p)>> : p \in FilePaths}
    \cup {<<ReadFileByIDOp(id)>> : id \in FileIds}

InitDrive ==
  /\ InitCommonCallers
  /\ script \in {f \in [Clients -> DriveScripts \cup DriveSingles] :
                   /\ f[1] \in DriveScripts
                   /\ \A c \in Clients \ {1} : f[c] \in DriveSingles \cup {<<>>}}
  /\ clientOAuthAPILoaded = FALSE
  /\ authorized = TRUE
  /\ driveAPILoaded = TRUE
  /\ userInfo = NoInfo
  /\ entries \in Stores
  /\ nextId = Len(entries) + 1
  /\ faults = MaxFaults
  /\ fs = FALSE
  /\ ldirs = {<<>>}
  /\ lfiles = {}

NextDrive ==
  \E c \in Clients :
    \/ GCreatePath(c)
    \/ GWriteFile(c)
    \/ GCreateFolderListed(c)
    \/ GCreateFolderListFailed(c)
    \/ GCreateFolderInserted(c)
    \/ GCreateFolderInsertFailed(c)
    \/ GUploaded(c)
    \/ GUploadFailed(c)
    \/ GIsFile(c)
    \/ GFindEntryListed(c)
    \/ GFindEntryListFailed(c)
    \/ GFileGot(c)
    \/ GFileGetFailed(c)
    \/ GReadFile(c)
    \/ GReadFileByID(c)
    \/ GCopied(c)
    \/ GCopyFailed(c)

SpecDrive == InitDrive /\ [][NextDrive]_vars

----------------------------------------------------------------------------
(* Local specification: a LocalFileManager, fresh (fs null) or with its      *)
(* filesystem already granted                                                *)

\* "/a/f", "/a/b/f", ... and the relative "a/f"
LocalFilePaths == {d \o <<"/", "f">> : d \in DirPaths} \cup {<<"a", "/", "f">>}

\* a sandbox left by earlier use: directory a with the files a/f and a/b
UsedFiles == {[path |-> <<"a", "/", "f">>, data |-> 5], [path |-> <<"a", "/", "b">>, data |-> 6]}

LCreatePathOp(p) == Op("l.createPath", p, 0, FALSE)
LWriteFileOp(p, d) == Op("l.writeFile", p, d, FALSE)
LIsFileOp(p) == Op("l.isFile", p, 0, FALSE)
LReadFileOp(p) == Op("l.readFile", p, 0, FALSE)

LocalSingles ==
  {<<LCreatePathOp(d)>> : d \in DirPaths}
    \cup {<<LWriteFileOp(p, 2)>> : p \in LocalFilePaths}
    \cup {<<LIsFileOp(p)>> : p \in LocalFilePaths}

LocalScripts ==
  {<<>>}
    \cup {<<LCreatePathOp(d)>> : d \in DirPaths}
    \cup {<<LCreatePathOp(d), LCreatePathOp(d)>> : d \in DirPaths}
    \cup {<<LWriteFileOp(p, 1)>> : p \in LocalFilePaths}
    \cup {<<LWriteFileOp(p, 1), LIsFileOp(p)>> : p \in LocalFilePaths}
    \cup {<<LWriteFileOp(p, 1), LReadFileOp(p)>> : p \in LocalFilePaths}
    \cup {<<LIsFileOp(p)>> : p \in LocalFilePaths}
    \cup {<<LReadFileOp(p)>> : p \in LocalFilePaths}

InitLocal ==
  /\ InitCommonCallers
  /\ script \in {f \in [Clients -> LocalScripts \cup LocalSingles] :
                   /\ f[1] \in LocalScripts
                   /\ \A c \in Clients \ {1} : f[c] \in LocalSingles \cup {<<>>}}
  /\ clientOAuthAPILoaded = FALSE
  /\ authorized = FALSE
  /\ driveAPILoaded = FALSE
  /\ userInfo = NoInfo
  /\ entries = <<>>
  /\ nextId = 1
  /\ faults = MaxFaults
  /\ fs \in BOOLEAN
  /\ \/ ldirs = {<<>>} /\ lfiles = {}
     \/ fs /\ ldirs = {<<>>, <<"a">>} /\ lfiles = UsedFiles

NextLocal ==
  \E c \in Clients :
    \/ LCreatePath(c)
    \/ LIsFile(c)
    \/ LReadFile(c)
    \/ LWriteFile(c)
    \/ LFsGranted(c)
    \/ LFsDenied(c)
    \/ LDirCreated(c)
    \/ LDirCreateFailed(c)
    \/ LDirFound(c)
    \/ LDirNotFound(c)
    \/ LDirCheckFailed(c)
    \/ LFileOpened(c)
    \/ LFileOpenFailed(c)
    \/ LWriterCreated(c)
    \/ LWriterFailed(c)
    \/ LWritten(c)
    \/ LWriteError(c)
    \/ LFileFound(c)
    \/ LFileNotFound(c)
    \/ LFileObj(c)
    \/ LFileObjFailed(c)
    \/ LReadLoaded(c)
    \/ LReadError(c)

SpecLocal == InitLocal /\ [][NextLocal]_vars

\* both backends: one behaviour drives one of them
InitFiles == InitDrive \/ InitLocal

NextFiles == NextDrive \/ NextLocal

SpecFiles == InitFiles /\ [][NextFiles]_vars

----------------------------------------------------------------------------
(* Cloud specification: a new GDriveFileManager whose callers use it before, *)
(* while and after the session is acquired                                   *)

RequestFileSystemOp == Op("g.requestFileSystem", <<>>, 0, FALSE)

CloudOps ==
  { CreatePathOp(<<"/", "a">>),
    WriteFileOp(<<"/", "a", "/", "f">>, 1),
    IsFileOp(<<"/", "a", "/", "f">>),
    ReadFileOp(<<"/", "a", "/", "f">>),
    ReadFileByIDOp(2),
    Op("g.getUserInfo", <<>>, 0, FALSE) }

\* an operation on the new instance, or one that follows a requestFileSystem
CloudScripts ==
  {<<o>> : o \in CloudOps} \cup {<<RequestFileSystemOp, o>> : o \in CloudOps}

InitCloud ==
  /\ InitCommonCallers
  /\ script \in {f \in [Clients -> CloudScripts \cup {<<>>, <<RequestFileSystemOp>>}] :
                   /\ f[1] \in CloudScripts
                   /\ \A c \in Clients \ {1} : f[c] \in {<<>>, <<RequestFileSystemOp>>}}
  /\ clientOAuthAPILoaded = FALSE
  /\ authorized = FALSE
  /\ driveAPILoaded = FALSE
  /\ userInfo = NoInfo
  /\ entries \in Stores
  /\ nextId = Len(entries) + 1
  /\ faults = MaxFaults
  /\ fs = FALSE
  /\ ldirs = {<<>>}
  /\ lfiles = {}

NextCloud ==
  \/ NextSession
  \/ NextDrive
  \/ \E c \in Clients :
       \/ GGetUserInfo(c)
       \/ GUserInfoGot(c)
       \/ GUserInfoFailed(c)

SpecCloud == InitCloud /\ [][NextCloud]_vars

\* one file manager of either kind, from its construction on
InitLife == InitCloud \/ InitLocal

NextLife == NextCloud \/ NextLocal

SpecLife == InitLife /\ [][NextLife]_vars

----------------------------------------------------------------------------
(* Path specification: the path utility by itself, and createPath / exists   *)
(* of the ready Drive backend, over every short path                         *)

\* the array fmjs.path2array returns
RSegs(segs) == [t |-> "segs", segs |-> segs]

\* fmjs.path2array(path), called by itself
PPath2Array(c) ==
  /\ CanStart(c, "path2array")
  /\ Callback(c, RSegs(Path2Array(Current(c).path)))
  /\ Emit(c, <<"call", "return">>)
  /\ UNCHANGED <<sessionVars, driveVars, localVars, faults>>

PathTokens == {"/", ".", "a"}

\* every path of up to MaxLen tokens, and the two paths of the documentation
PathInputs ==
  SeqsUpTo(PathTokens, MaxLen)
    \cup {<<"/", "a", "/", "b", "/", "c">>, <<"a", "/", "b">>}

\* a Drive with two folders a in the root, files a in both (and two in the
\* first), a folder "." in the first, and a file "." in the root
PathStore ==
  << Entry(1, <<"a">>, TRUE, RootId, 0),
     Entry(2, <<"a">>, TRUE, RootId, 0),
     Entry(3, <<"a">>, FALSE, 2, 5),
     Entry(4, <<"a">>, FALSE, 1, 6),
     Entry(5, <<"a">>, FALSE, 1, 7),
     Entry(6, <<".">>, TRUE, 1, 0),
     Entry(7, <<".">>, FALSE, RootId, 8) >>

PathOps ==
  {Op(o, p, 0, FALSE) : o \in {"path2array", "g.createPath", "g.isFile"}, p \in PathInputs}

InitPath ==
  /\ InitCommonCallers
  /\ \E o \in PathOps : script = [c \in Clients |-> IF c = 1 THEN <<o>> ELSE <<>>]
  /\ clientOAuthAPILoaded = FALSE
  /\ authorized = TRUE
  /\ driveAPILoaded = TRUE
  /\ userInfo = NoInfo
  /\ entries \in Stores \cup {PathStore}
  /\ nextId = Len(entries) + 1
  /\ faults = 0
  /\ fs = FALSE
  /\ ldirs = {<<>>}
  /\ lfiles = {}

NextPath ==
  \E c \in Clients :
    \/ PPath2Array(c)
    \/ GCreatePath(c)
    \/ GCreateFolderListed(c)
    \/ GCreateFolderInserted(c)
    \/ GIsFile(c)
    \/ GFindEntryListed(c)
    \/ GFileGot(c)

SpecPath == InitPath /\ [][NextPath]_vars

----------------------------------------------------------------------------
(* Byte/string conversion.  A buffer is a sequence of bytes, a string a      *)
(* sequence of UTF-16 code units.                                            *)

\* fmjs.ab2str: String.fromCharCode.apply(null, new Uint8Array(buf)); fromCharCode
\* makes one code unit of each argument (ToUint16)
Ab2Str(buf) == [i \in 1..Len(buf) |-> buf[i] % 65536]

\* mutant: the view is an Int8Array, bytes from 128 on are stored negative
Str2Ab_Int8(str) == [i \in 1..Len(str) |-> ((str[i] + 128) % 256) - 128]

\* fmjs.str2ab: bufView[i] = str.charCodeAt(i) into a Uint8Array of str.length
\* elements (ToUint8)
Str2Ab(str) == [i \in 1..Len(str) |-> str[i] % 256]

\* the ArrayBuffer str2ab returns
RBuf(buf) == [t |-> "buf", buf |-> buf]

\* fmjs.ab2str(buf)
PAb2Str(c) ==
  /\ CanStart(c, "ab2str")
  /\ Goto(c, "p.str", [NoLoc EXCEPT !.name = Ab2Str(Current(c).path)])
  /\ Emit(c, <<"call", "ab2str">>)
  /\ UNCHANGED <<sessionVars, driveVars, localVars, faults>>

\* fmjs.str2ab(str), of the string ab2str returned
PStr2Ab(c) ==
  /\ pc[c] = "p.str"
  /\ Callback(c, RBuf(Str2Ab(loc[c].name)))
  /\ Emit(c, <<"str2ab", "return">>)
  /\ UNCHANGED <<sessionVars, driveVars, localVars, faults>>

\* byte values at the ends and in the middle of the range
ByteSample == {0, 1, 127, 128, 255}

\* every buffer of one byte, and the buffers of up to MaxBytes sampled bytes
Buffers == SeqsUpTo(ByteSample, MaxBytes) \cup {<<b>> : b \in 0..255}

InitBytes ==
  /\ InitCommonCallers
  /\ \E buf \in Buffers :
       script = [c \in Clients |-> IF c = 1 THEN <<Op("ab2str", buf, 0, FALSE)>> ELSE <<>>]
  /\ clientOAuthAPILoaded = FALSE
  /\ authorized = FALSE
  /\ driveAPILoaded = FALSE
  /\ userInfo = NoInfo
  /\ entries = <<>>
  /\ nextId = 1
  /\ faults = 0
  /\ fs = FALSE
  /\ ldirs = {<<>>}
  /\ lfiles = {}

NextBytes == \E c \in Clients : PAb2Str(c) \/ PStr2Ab(c)

SpecBytes == InitBytes /\ [][NextBytes]_vars

----------------------------------------------------------------------------
(* Claims about the session *)

Calls(c) == 1..Len(script[c])

\* C1: a requestFileSystem call made while the session already exists
\* (authorized and drive API loaded) has its callback invoked with true
\* by the time its control flow has run to the end, whatever the flag.
C1_ReadyCallGranted ==
  \A c \in Clients : \A k \in Calls(c) :
    (HasEv(c, k, "call.ready") /\ Finished(c, k)) => HasEv(c, k, "callback.true")

\* C2: the session stages are strictly sequential: authorize is requested
\* only after this call's library-load callback, the drive API load only
\* after that callback and after some authorize callback reported success,
\* and callback(true) only after this call's drive API load callback.
C2_StagesSequential ==
  /\ \A c \in Clients : \A k \in Calls(c) :
       /\ Before(c, k, "libload.cb", "authorize.req")
       /\ Before(c, k, "libload.cb", "driveload.req")
       /\ Before(c, k, "driveload.cb", "callback.true")
       /\ Before(c, k, "driveload.req", "driveload.cb")
  /\ \A c \in Clients :
       pc[c] = "driveload" =>
         /\ authorized
         /\ \E d \in Clients : \E k \in Calls(d) : HasEv(d, k, "authorize.ok")

\* a call went through all three stages itself and was granted
C2_Witness ==
  \E c \in Clients : \E k \in Calls(c) :
    /\ HasEv(c, k, "authorize.ok")
    /\ HasEv(c, k, "callback.true")
    /\ \E d \in Clients \ {c} : pc[d] = "driveload" /\ ~HasEv(d, ip[d], "authorize.ok")

\* C3: a refused authorization gives callback(false) without requesting the
\* drive API load, and a later call of the same caller whose authorization
\* succeeds ends with callback(true) and the backend ready.
C3_RefusedThenRecovers ==
  \A c \in Clients : \A k \in Calls(c) :
    /\ HasEv(c, k, "callback.false") =>
         /\ ~HasEv(c, k, "driveload.req")
         /\ log[c][k] = RBool(FALSE)
    /\ ( /\ \E j \in 1..(k - 1) : HasEv(c, j, "callback.false")
         /\ HasEv(c, k, "authorize.ok")
         /\ Finished(c, k) )
       => (HasEv(c, k, "callback.true") /\ driveAPILoaded)

----------------------------------------------------------------------------
(* Claims about the storage operations *)

storage == <<entries, ldirs, lfiles>>

\* caller c is the only one that invokes anything
Alone(c) == \A d \in Clients \ {c} : script[d] = <<>>

ErrEvents ==
  {"list.err", "insert.err", "upload.err", "get.err", "copy.err", "reqfs.err",
   "mkdir.err", "checkdir.err", "getfile.err", "writer.err", "write.err",
   "lookup.err", "fileobj.err", "read.err"}

\* a request of operation k of caller c was answered with a failure
Failed(c, k) ==
  \E i \in 1..Len(ev[c]) : ev[c][i][1] = k /\ ev[c][i][2] \in ErrEvents

\* two callback arguments denote the same directory
SameRef(r1, r2) ==
  \/ r1.t = "dir" /\ r2.t = "dir" /\ r1.title = r2.title
  \/ /\ r1.t \in {"entry", "ref"}
     /\ r2.t \in {"entry", "ref"}
     /\ r1.id = r2.id
     /\ r1.id # NoId

CreateTwice(c) ==
  /\ Len(script[c]) = 2
  /\ script[c][1] = script[c][2]
  /\ script[c][1].op \in {"g.createPath", "l.createPath"}

C5_WriteAfterParent ==
  \A c \in Clients :
    /\ (pc[c] = "upload" /\ HasEv(c, ip[c], "insert.req")) =>
         \E i \in 1..Len(entries) : entries[i].id = loc[c].cur /\ entries[i].folder
    /\ (pc[c] = "l.getfile.w" /\ HasEv(c, ip[c], "checkdir.notfound")) =>
         Norm(Basedir(Current(c).path)) \in ldirs

WriteThenExists(c) ==
  /\ Len(script[c]) = 3
  /\ script[c][1].op = "g.createPath"
  /\ script[c][2].op = "g.writeFile"
  /\ script[c][3].op = "g.isFile"
  /\ script[c][2].path = script[c][3].path
  /\ script[c][1].path = Basedir(script[c][2].path)
  /\ Len(Path2Array(script[c][1].path)) >= 1

\* createPath(d), writeFile(d/f) and exists(d/f) ran in sequence, undisturbed,
\* and the file written is the only non-folder f in its folder
WriteThenExistsDone(c) ==
  /\ Alone(c) /\ WriteThenExists(c)
  /\ ip[c] = 4
  /\ \A k \in 1..3 : ~Failed(c, k)
  /\ HasId(log[c][2].id)
  /\ Len(Children(ById(log[c][2].id).parent, Leaf(script[c][2].path), FALSE)) = 1

\* C6: after createPath(d) and writeFile(d/f) on the ready Drive backend,
\* with no earlier f under d, writeFile's callback got a record named f and
\* exists(d/f) returns a record with the same identifier.
C6_WriteThenExists ==
  \A c \in Clients :
    WriteThenExistsDone(c) =>
      /\ log[c][2].t = "entry"
      /\ log[c][2].title = Leaf(script[c][2].path)
      /\ log[c][3].t = "entry"
      /\ log[c][3].id = log[c][2].id

C6_Witness ==
  \E c \in Clients :
    /\ WriteThenExistsDone(c)
    /\ Len(Path2Array(script[c][1].path)) = 2
    /\ Len(entries) > 3

\* some chain of entries from the root matches the segments: folders for all
\* but the last, a non-folder for the last
RECURSIVE ChainExists(_, _)
ChainExists(segs, under) ==
  IF Len(segs) = 1
    THEN \E i \in 1..Len(entries) :
           /\ entries[i].parent \in under
           /\ entries[i].title = segs[1]
           /\ ~entries[i].folder
    ELSE ChainExists(Tail(segs),
                     {entries[i].id : i \in {j \in 1..Len(entries) :
                         /\ entries[j].parent \in under
                         /\ entries[j].title = segs[1]
                         /\ entries[j].folder}})

\* operation o is an exists for a path of one or more segments that matches
\* no entry of its backend
MatchesNothing(o) ==
  IF o.op = "g.isFile"
    THEN /\ Len(Path2Array(o.path)) >= 1
         /\ ~ChainExists(Path2Array(o.path), {RootId})
    ELSE ~FileAt(Norm(o.path))

\* the session of the backend of operation k of caller c was ready at the call
CalledReady(c, k) ==
  IF script[c][k].op = "g.isFile" THEN driveAPILoaded ELSE ~HasEv(c, k, "reqfs.req")

\* caller c, the only one, is at an exists
AtExists(c) ==
  /\ script[c] # <<>>
  /\ Alone(c)
  /\ ip[c] <= Len(script[c])
  /\ Current(c).op \in {"g.isFile", "l.isFile"}

\* C7: exists(p) on a ready backend, for a path that matches no entry and
\* with every listing answered, stores nothing, does not throw, and calls
\* back once, with null.
C7_ExistsOfMissingIsNull ==
  [][\A c \in Clients :
       AtExists(c) =>
         \A k \in {ip[c]} :
           /\ storage' = storage
           /\ (MatchesNothing(script[c][k]) /\ CalledReady(c, k)'
                 /\ ~HasEv(c, k, "list.err")') =>
                /\ pc'[c] \notin {"thrown", "ended"}
                /\ ip'[c] = k + 1 =>
                     /\ log'[c][k] = RNull
                     /\ EvCount(c, k, "callback")' = 1]_vars

\* a Drive exists stopped at its second segment: the folder is there, the file is not
C7_Witness ==
  \E c \in Clients :
    /\ Alone(c)
    /\ script[c] = <<IsFileOp(<<"/", "a", "/", "b", "/", "f">>)>>
    /\ ip[c] = 2
    /\ MatchesNothing(script[c][1])
    /\ CalledReady(c, 1)
    /\ EvCount(c, 1, "list.req") = 2
    /\ log[c][1] = RNull

\* C8: readFileByID deletes its temporary copy exactly once, after the read
\* of the copy, so that no copy is left when readFileByID is over.
C8_NoResidualCopy ==
  \A c \in Clients : \A k \in Calls(c) :
    ( /\ script[c][k].op = "g.readFileByID"
      /\ HasEv(c, k, "copy.ok")
      /\ Finished(c, k) )
    => /\ EvCount(c, k, "delete.req") = 1
       /\ \A i \in 1..Len(entries) : entries[i].title # TempName

\* C9: readFileByID(id, cb) hands cb the content of the entry id, wherever
\* the entry is and whatever other readFileByID calls are in flight.
C9_DeliversContent ==
  \A c \in Clients : \A k \in Calls(c) :
    ( /\ script[c][k].op = "g.readFileByID"
      /\ HasId(script[c][k].data)
      /\ ~Failed(c, k)
      /\ Finished(c, k) )
    => /\ k < ip[c]
       /\ log[c][k] = RData(ById(script[c][k].data).data)

\* the record writeFile(path) got names the leaf and lies in the folder the
\* directory part of path resolves to (the root when there is none)
UploadedUnderParent(r, path) ==
  LET dirs == Path2Array(Basedir(path))
  IN /\ r.t = "entry"
     /\ r.title = Leaf(path)
     /\ HasId(r.id)
     /\ LET par == ById(r.id).parent
        IN IF dirs = <<>>
             THEN par = RootId
             ELSE /\ HasId(par)
                  /\ ById(par).folder
                  /\ ById(par).title = dirs[Len(dirs)]

\* C10: Drive writeFile(p, bytes), for every p with a file name (also one
\* directly under the root), issues exactly one upload, named by the last
\* segment of p, under the resolved parent folder.
C10_OneUploadUnderParent ==
  \A c \in Clients : \A k \in Calls(c) :
    ( /\ script[c][k].op = "g.writeFile"
      /\ Leaf(script[c][k].path) # <<>>
      /\ ~Failed(c, k)
      /\ Finished(c, k) )
    => /\ EvCount(c, k, "upload.req") = 1
       /\ k < ip[c]
       /\ UploadedUnderParent(log[c][k], script[c][k].path)

----------------------------------------------------------------------------
(* Claims about the local session *)

LocalOps == {"l.createPath", "l.isFile", "l.readFile", "l.writeFile"}

\* positions at which a request to the sandboxed filesystem is in flight
LocalPending ==
  {"l.mkdir", "l.checkdir", "l.getfile.w", "l.writer", "l.write", "l.getfile.r",
   "l.fileobj", "l.read"}

\* requests to the storage collaborator
StorageReqs ==
  {"mkdir.req", "checkdir.req", "getfile.req", "writer.req", "write.req",
   "lookup.req", "fileobj.req", "read.req"}

\* how often the body of operation k of caller c was entered: directly from
\* the call or from the acquisition callback
BodyRuns(c, k) ==
  Cardinality({i \in 1..(Len(ev[c]) - 1) :
                 /\ ev[c][i] \in {<<k, "call">>, <<k, "reqfs.cb">>}
                 /\ ev[c][i + 1] \in {<<k, "mkdir.req">>, <<k, "checkdir.req">>,
                                      <<k, "lookup.req">>}})

C12_FailureGivesNull ==
  \A c \in Clients : \A k \in Calls(c) :
    (Failed(c, k) /\ Finished(c, k)) =>
      /\ k < ip[c]
      /\ log[c][k] = RNull

----------------------------------------------------------------------------
(* Claims about getUserInfo *)

\* caller c is at a getUserInfo
AtGetUserInfo(c) ==
  /\ ip[c] <= Len(script[c])
  /\ Current(c).op = "g.getUserInfo"

\* what one step does to the getUserInfo call of every caller: a call made
\* with the data cached calls back with the cached data and issues no
\* lookup; a call made on the ready backend with nothing cached issues one
\* lookup; the answer of a lookup is stored and handed to the callback
UserInfoCalls ==
  \A c \in Clients :
    AtGetUserInfo(c) =>
      \A k \in {ip[c]} :
        /\ (pc[c] = "idle" /\ ev'[c] # ev[c]) =>
             IF userInfo # NoInfo
               THEN /\ ip'[c] = k + 1
                    /\ log'[c][k] = RUser(userInfo)
                    /\ ~HasEv(c, k, "about.req")'
                    /\ userInfo' = userInfo
               ELSE driveAPILoaded =>
                      /\ pc'[c] = "about"
                      /\ EvCount(c, k, "about.req")' = 1
                      /\ userInfo' = userInfo
        /\ EvCount(c, k, "about.req")' <= 1
        /\ (pc[c] = "about" /\ ip'[c] = k + 1) =>
             /\ userInfo' # NoInfo
             /\ log'[c][k] = RUser(userInfo')
             /\ EvCount(c, k, "callback")' = 1

\* C13: getUserInfo with the user info cached calls back with the cached
\* data and issues no lookup; with nothing cached it issues exactly one
\* lookup, stores the answer and hands it over; once set, the cached user
\* info is never changed or cleared.
C13_UserInfoCachedForGood ==
  [][/\ UserInfoCalls
     /\ userInfo # NoInfo => userInfo' = userInfo]_vars

\* C13 (amended): as C13, but once set the cached user info is never
\* cleared, and it is replaced only by the answer of a lookup that was issued
\* while nothing was cached.
C13_UserInfoCached ==
  [][/\ UserInfoCalls
     /\ userInfo # NoInfo => userInfo' # NoInfo
     /\ userInfo' # userInfo =>
          \E c \in Clients :
            /\ AtGetUserInfo(c)
            /\ pc[c] = "about"
            /\ ip'[c] = ip[c] + 1]_vars

\* two lookups overlapped and were answered differently; a later call got
\* the cached data without a lookup
C13_Witness ==
  \E c \in Clients :
    /\ Len(script[c]) = 2
    /\ ip[c] = 3
    /\ HasEv(c, 1, "about.req")
    /\ ~HasEv(c, 2, "about.req")
    /\ log[c][2] = RUser(userInfo)
    /\ log[c][1] # log[c][2]

\* C14: getUserInfo called while the drive API is not loaded issues no
\* lookup, leaves the cached user info as it is, throws, and its callback
\* is never invoked, also not once the backend is ready.
C14_NotReadyFailsLoudly ==
  [][\A c \in Clients :
       AtGetUserInfo(c) =>
         \A k \in {ip[c]} :
           /\ (pc[c] = "idle" /\ ev'[c] # ev[c] /\ ~driveAPILoaded) =>
                /\ pc'[c] = "thrown"
                /\ ~HasEv(c, k, "about.req")'
                /\ ~HasEv(c, k, "callback")'
                /\ userInfo' = userInfo
           /\ (pc[c] = "thrown" /\ ~HasEv(c, k, "about.req")) =>
                /\ pc'[c] = "thrown"
                /\ ip'[c] = k
                /\ log'[c] = log[c]
                /\ ~HasEv(c, k, "about.req")'
                /\ ~HasEv(c, k, "callback")']_vars

\* a getUserInfo made before the session was granted has thrown, and the
\* backend has become ready since
C14_Witness ==
  \E c \in Clients :
    /\ AtGetUserInfo(c)
    /\ pc[c] = "thrown"
    /\ ev[c][Len(ev[c])] = <<ip[c], "TypeError">>
    /\ ~HasEv(c, ip[c], "about.req")
    /\ driveAPILoaded
    /\ userInfo # NoInfo

----------------------------------------------------------------------------
(* Claims about paths *)

\* the elements of segs, written one after the other with a slash between
RECURSIVE Slashed(_)
Slashed(segs) ==
  IF Len(segs) = 1 THEN segs[1]
  ELSE segs[1] \o <<"/">> \o Slashed(Tail(segs))

\* segs is p cut at its slashes: as many elements as slashes plus one, none
\* holding a slash, and p again when written with slashes between
IsSplitOf(segs, p) ==
  /\ Len(segs) = Cardinality({i \in 1..Len(p) : p[i] = "/"}) + 1
  /\ \A i \in 1..Len(segs) : \A j \in 1..Len(segs[i]) : segs[i][j] # "/"
  /\ Slashed(segs) = p

\* the leading element of p cut at its slashes, when that is "" or ".":
\* the one element path2array removes
Leading(p) ==
  IF p = <<>> \/ p[1] = "/" THEN << <<>> >>
  ELSE IF p[1] = "." /\ (Len(p) = 1 \/ p[2] = "/") THEN << <<".">> >>
  ELSE <<>>

\* C15: path2array(p) is p split at its slashes, less exactly one leading
\* element when that element is "" or ".", the other elements unchanged and
\* in order; "/a/b/c" gives [a, b, c] and "a/b" gives [a, b].
C15_Path2ArrayDropsOneLeading ==
  \A c \in Clients : \A k \in 1..(ip[c] - 1) :
    script[c][k].op = "path2array" =>
      LET p == script[c][k].path
          r == log[c][k].segs
      IN /\ IsSplitOf(Leading(p) \o r, p)
         /\ p = <<"/", "a", "/", "b", "/", "c">> => r = << <<"a">>, <<"b">>, <<"c">> >>
         /\ p = <<"a", "/", "b">> => r = << <<"a">>, <<"b">> >>

\* path2array has returned for "/./a": one leading element removed, the "." kept
C15_Witness ==
  \E c \in Clients :
    /\ ip[c] = 2
    /\ script[c][1] = Op("path2array", <<"/", ".", "/", "a">>, 0, FALSE)
    /\ log[c][1].segs = << <<".">>, <<"a">> >>

\* C16: no element of the array path2array returns, and of the segments
\* createPath and exists walk, is the empty string.
C16_NoEmptySegment ==
  \A c \in Clients :
    /\ \A k \in 1..(ip[c] - 1) :
         script[c][k].op = "path2array" =>
           \A i \in 1..Len(log[c][k].segs) : log[c][k].segs[i] # <<>>
    /\ pc[c] \in {"cp.list", "cp.insert", "fe.list"} =>
         \A i \in 1..Len(loc[c].folders) : loc[c].folders[i] # <<>>

\* C17: str2ab(ab2str(b)) has the length of b and the byte of b at every
\* position, for every buffer b of bytes 0..255; the string between has one
\* character per byte.
C17_RoundTrip ==
  \A c \in Clients :
    /\ pc[c] = "p.str" => Len(loc[c].name) = Len(Current(c).path)
    /\ \A k \in 1..(ip[c] - 1) :
         script[c][k].op = "ab2str" =>
           /\ Len(log[c][k].buf) = Len(script[c][k].path)
           /\ \A i \in 1..Len(script[c][k].path) : log[c][k].buf[i] = script[c][k].path[i]

\* the round trip of a buffer with bytes at both ends of the range is done
C17_Witness ==
  \E c \in Clients :
    /\ ip[c] = 2
    /\ script[c][1].op = "ab2str"
    /\ script[c][1].path = <<255, 0, 128>>
    /\ log[c][1].buf = <<255, 0, 128>>

----------------------------------------------------------------------------
(* Claims about overlapping operations and path resolution on Drive *)

\* callers c and d both wait for the insert of the same folder name under
\* the same parent: both listed the parent before either insert completed
BothInserting(c, d) ==
  /\ pc[c] = "cp.insert"
  /\ pc[d] = "cp.insert"
  /\ loc[c].cur = loc[d].cur
  /\ loc[c].folders[1] = loc[d].folders[1]

\* C18: overlapping Drive writeFile / createPath calls are not protected
\* from each other: when two of them have listed the same missing folder
\* before either insert completed, both inserts are outstanding, and every
\* insert that completes adds a folder of that name under that parent
\* whatever is there by then, so that two same-named sibling folders result.
C18_BothInsert ==
  [][\A c \in Clients :
       pc[c] = "cp.insert" =>
         \A l \in {loc[c]} :
           /\ \A d \in Clients \ {c} :
                BothInserting(c, d) => Len(Children(l.cur, l.folders[1], TRUE)) = 0
           /\ (HasEv(c, ip[c], "insert.ok")' /\ ev'[c] # ev[c]
                 /\ ev'[c][Len(ev[c]) + 1][2] = "insert.ok") =>
                /\ Len(Children(l.cur, l.folders[1], TRUE))'
                     = Len(Children(l.cur, l.folders[1], TRUE)) + 1
                /\ \A d \in Clients \ {c} :
                     BothInserting(c, d) => (pc'[d] = "cp.insert" /\ loc'[d] = loc[d])]_vars

\* two writeFile calls for the same new directory overlapped on an empty
\* Drive: both inserted the folder, and each file lies in a folder of its own
C18_Witness ==
  \E c \in Clients : \E d \in Clients \ {c} :
    /\ script[c] = <<WriteFileOp(<<"/", "a", "/", "f">>, 1)>>
    /\ script[d] = <<WriteFileOp(<<"/", "a", "/", "f">>, 2)>>
    /\ ip[c] = 2 /\ ip[d] = 2
    /\ ~Failed(c, 1) /\ ~Failed(d, 1)
    /\ Len(entries) = 4
    /\ Len(Children(RootId, <<"a">>, TRUE)) = 2
    /\ ById(log[c][1].id).parent # ById(log[d][1].id).parent

\* the id of the first entry, in listing order, under parent with that name
\* and of that kind; NoId when there is none
FirstListed(parent, name, folder) ==
  LET at == {i \in 1..Len(entries) :
               /\ entries[i].parent = parent
               /\ entries[i].title = name
               /\ entries[i].folder = folder}
  IN IF at = {} THEN NoId
     ELSE entries[CHOOSE i \in at : \A j \in at : i <= j].id

\* the entry the segments lead to from folder cur: first listed folders for
\* all but the last segment, the first listed non-folder for the last
RECURSIVE ResolveFile(_, _)
ResolveFile(segs, cur) ==
  CHOOSE r \in {IF id = NoId \/ Len(segs) = 1 THEN id ELSE ResolveFile(Tail(segs), id) :
                 id \in {FirstListed(cur, segs[1], Len(segs) > 1)}} : TRUE

\* C19: exists(p) on the ready Drive backend, every request answered,
\* resolves p from the synthetic root, every intermediate segment to the
\* first listed folder of that name and the final segment to the first listed
\* non-folder of that name, and calls back with the record of exactly that
\* entry, or with null when some segment has no such entry.
C19_ResolvesFirstListed ==
  \A c \in Clients :
    ( /\ script[c] # <<>>
      /\ script[c][1].op = "g.isFile"
      /\ Len(Path2Array(script[c][1].path)) >= 1
      /\ ip[c] = 2 )
    => LET id == ResolveFile(Path2Array(script[c][1].path), RootId)
       IN log[c][1] = IF id = NoId THEN RNull ELSE REntry(ById(id))

\* exists("a/a") took the first folder a and, of its two files a, the first
C19_Witness ==
  \E c \in Clients :
    /\ script[c] = <<IsFileOp(<<"a", "/", "a">>)>>
    /\ entries = PathStore
    /\ ip[c] = 2
    /\ log[c][1].t = "entry"
    /\ log[c][1].id = 4

----------------------------------------------------------------------------
(* Claims about the local createPath *)

\* no event e of operation k of caller c comes after an event d of it
NoneAfter(c, k, d, e) ==
  \A i \in 1..Len(ev[c]) : \A j \in (i + 1)..Len(ev[c]) :
    ~(ev[c][i] = <<k, d>> /\ ev[c][j] = <<k, e>>)

----------------------------------------------------------------------------
(* Claims about the session of the cloud backend *)

ColdOps == {"g.createPath", "g.isFile", "g.readFileByID", "g.writeFile"}

\* C21: a Drive createPath, exists, readFileByID or writeFile invoked while
\* the drive API is not loaded issues no request, changes nothing of the
\* backend, does not start the session acquisition, and its callback is
\* never invoked, also not once the session is ready.
C21_NotReadyDoesNothing ==
  [][\A c \in Clients :
       (ip[c] <= Len(script[c]) /\ Current(c).op \in ColdOps) =>
         \A k \in {ip[c]} :
           /\ (pc[c] = "idle" /\ ev'[c] # ev[c] /\ ~driveAPILoaded) =>
                /\ ev'[c] = ev[c] \o << <<k, "call">>, <<k, "console.error">>,
                                       <<k, "nocallback">> >>
                /\ pc'[c] = "ended"
                /\ UNCHANGED <<sessionVars, driveVars, localVars, log>>
           /\ pc[c] = "ended" =>
                /\ pc'[c] = "ended"
                /\ ip'[c] = k
                /\ log'[c] = log[c]
                /\ ev'[c] = ev[c]]_vars

\* a writeFile made on the new instance has stopped without a callback, and
\* the session has been granted since
C21_Witness ==
  \E c \in Clients :
    /\ script[c] = <<WriteFileOp(<<"/", "a", "/", "f">>, 1)>>
    /\ pc[c] = "ended"
    /\ log[c] = <<>>
    /\ driveAPILoaded
    /\ \E d \in Clients \ {c} : log[d] = <<RBool(TRUE)>>

\* the paths that denote the root: "", ".", "/" and "./"
RootPaths == {<<>>, <<".">>, <<"/">>, <<".", "/">>}

\* C22: for each of the root paths "", ".", "/" and "./", path2array returns
\* the empty array, and createPath and isFile on the ready Drive backend
\* issue no request, create no entry and call back with null.
C22_RootPathsDoNothing ==
  \A c \in Clients :
    \A k \in Calls(c) :
      script[c][k].path \in RootPaths =>
        /\ ~HasEv(c, k, "list.req")
        /\ ~HasEv(c, k, "insert.req")
        /\ Finished(c, k) =>
             IF script[c][k].op = "path2array"
               THEN log[c][k] = RSegs(<<>>)
               ELSE log[c][k] = RNull /\ nextId = Len(entries) + 1

\* C23: in every reachable state driveAPILoaded implies authorized, and no
\* step resets authorized, driveAPILoaded or the local fs handle once it is
\* set.
C23_SessionMonotonic ==
  [][/\ driveAPILoaded => authorized
     /\ driveAPILoaded' => authorized'
     /\ authorized => authorized'
     /\ driveAPILoaded => driveAPILoaded'
     /\ clientOAuthAPILoaded => clientOAuthAPILoaded'
     /\ fs => fs']_vars

\* the session is ready, a second requestFileSystem was refused and a first
\* caller has completed a Drive operation after its own requestFileSystem
C23_Witness ==
  /\ authorized
  /\ driveAPILoaded
  /\ \E c \in Clients : \E d \in Clients \ {c} :
       /\ log[d] = <<RBool(FALSE)>>
       /\ Len(script[c]) = 2
       /\ ip[c] = 3
       /\ log[c][1] = RBool(TRUE)

----------------------------------------------------------------------------
(* Claims about completion and about the frame of writeFile *)

CallbackEvents == {"callback", "callback.true", "callback.false"}

\* how often the callback of operation k of caller c has been invoked
Completions(c, k) ==
  Cardinality({i \in 1..Len(ev[c]) :
                 ev[c][i][1] = k /\ ev[c][i][2] \in CallbackEvents})

OnceOps ==
  {"g.requestFileSystem", "g.createPath", "g.isFile", "g.writeFile",
   "l.createPath", "l.isFile", "l.readFile", "l.writeFile"}

\* C24: the callback of one invocation of Drive requestFileSystem,
\* createPath, isFile, writeFile and of local createPath, isFile, readFile,
\* writeFile is invoked at most once, whatever the responses; it is the last
\* thing the invocation does, and every invocation of it is in the log.
C24_AtMostOnce ==
  \A c \in Clients :
    /\ \A k \in Calls(c) :
         script[c][k].op \in OnceOps =>
           /\ Completions(c, k) <= 1
           /\ Completions(c, k) = 1 => k < ip[c]
           /\ k > ip[c] => Completions(c, k) = 0
    /\ Len(log[c]) =
         Cardinality({i \in 1..Len(ev[c]) : ev[c][i][2] \in CallbackEvents})

\* a local writeFile whose directory could not be created went on to open
\* the file, failed again and has called back once
C24_Witness ==
  \E c \in Clients :
    /\ ip[c] = 2
    /\ script[c][1].op = "l.writeFile"
    /\ HasEv(c, 1, "mkdir.err")
    /\ HasEv(c, 1, "getfile.err")
    /\ Completions(c, 1) = 1

\* the folder the segments lead to from folder cur, by first listed folders
RECURSIVE ResolveDir(_, _)
ResolveDir(segs, cur) ==
  IF segs = <<>> THEN cur
  ELSE CHOOSE r \in {IF id = NoId THEN NoId ELSE ResolveDir(Tail(segs), id) :
                      id \in {FirstListed(cur, segs[1], TRUE)}} : TRUE

\* no step changes or removes an entry, and a step adds at most one; the
\* step that answers an upload with the file's resource adds exactly the new
\* file, with a fresh id, under the parent createPath handed over; every
\* other step of a writeFile call that adds an entry adds a folder
WriteFileFrame ==
  /\ Len(entries') \in {Len(entries), Len(entries) + 1}
  /\ SubSeq(entries', 1, Len(entries)) = entries
  /\ \A c \in Clients :
       (pc[c] = "upload" /\ ev'[c] # ev[c]) =>
         \A k \in {ip[c]} :
           IF ip'[c] = k + 1 /\ log'[c][k].t = "entry"
             THEN /\ ~HasId(log'[c][k].id)
                  /\ entries' = Append(entries,
                                       Entry(log'[c][k].id, Leaf(script[c][k].path), FALSE,
                                             loc[c].cur, script[c][k].data))
             ELSE entries' = entries
  /\ \A c \in Clients :
       ( /\ ev'[c] # ev[c]
         /\ entries' # entries
         /\ pc[c] # "upload"
         /\ Current(c).op = "g.writeFile" ) => entries'[Len(entries')].folder

\* caller c, alone, writes one path twice and then asks for it
TwoWrites(c) ==
  /\ Alone(c)
  /\ Len(script[c]) = 3
  /\ script[c][1].op = "g.writeFile"
  /\ script[c][2] = script[c][1]
  /\ script[c][3] = IsFileOp(script[c][1].path)

\* caller c, alone, has had two writeFile calls of the same path completed
TwoWritesDone(c) ==
  /\ TwoWrites(c)
  /\ ip[c] >= 3
  /\ log[c][1].t = "entry"
  /\ log[c][2].t = "entry"

\* the two files are there, different, with the name and under the folder
\* the path resolves to
TwoFilesLeft(c) ==
  LET parent == ResolveDir(Path2Array(Basedir(script[c][1].path)), RootId)
  IN /\ log[c][1].id # log[c][2].id
     /\ \A k \in 1..2 :
          /\ HasId(log[c][k].id)
          /\ ById(log[c][k].id) = Entry(log[c][k].id, Leaf(script[c][1].path), FALSE,
                                         parent, script[c][1].data)

\* the following exists(p) has been answered
ExistsAnswered(c) == ip[c] = 4 /\ ~Failed(c, 3)

\* C25 as stated: writeFile on the Drive backend never overwrites: every
\* completed writeFile adds one new file under the resolved parent and
\* changes or removes no entry; two successive writes of one path leave
\* two files of that name under the same parent, and exists(p) afterwards
\* returns one of the two.
C25_ExistsReturnsOneOfTheTwo ==
  [][/\ WriteFileFrame
     /\ \A c \in Clients :
          (TwoWrites(c) /\ ev'[c] # ev[c] /\ TwoWritesDone(c)') =>
            /\ TwoFilesLeft(c)'
            /\ ExistsAnswered(c)' =>
                 (log[c][3].t = "entry" /\ log[c][3].id \in {log[c][1].id, log[c][2].id})']_vars

\* C25 (amended): writeFile on the Drive backend never overwrites: every
\* completed writeFile adds one new file under the resolved parent and
\* changes or removes no entry; two successive writes of one path by an
\* undisturbed caller leave two files of that name under the same parent,
\* and exists(p) afterwards returns the first listed file of that name under
\* that parent: one of the two when there was none before, the earlier file
\* otherwise.
C25_NeverOverwrites ==
  [][/\ WriteFileFrame
     /\ \A c \in Clients :
          (TwoWrites(c) /\ ev'[c] # ev[c] /\ TwoWritesDone(c)') =>
            /\ TwoFilesLeft(c)'
            /\ ExistsAnswered(c)' =>
                 ( /\ log[c][3].t = "entry"
                   /\ log[c][3].id = ResolveFile(Path2Array(script[c][1].path), RootId)
                   /\ Len(Children(ById(log[c][1].id).parent, Leaf(script[c][1].path), FALSE)) = 2
                        => log[c][3].id = log[c][1].id )']_vars

\* "/a/f" was written twice into a folder that had a file f: there are three
\* files f now, and exists("/a/f") returned the earliest
C25_Witness ==
  \E c \in Clients :
    /\ TwoWritesDone(c)
    /\ ExistsAnswered(c)
    /\ script[c][1].path = <<"/", "a", "/", "f">>
    /\ Len(Children(1, <<"f">>, FALSE)) = 3
    /\ log[c][3].id = 2

====
